---- MODULE Spec2Model ----
(***************************************************************************)
(* FailsafeHandler (src/src/failsafehandler.py): a logging handler that    *)
(* walks an ordered chain of handlers (sinks), runs each emit call on a    *)
(* thread joined with a deadline, and keeps a per-handler record           *)
(* {active, attempts, reset_time} that takes a handler out of the chain    *)
(* after repeated timeouts and retries it once reset_time has passed.      *)
(*                                                                         *)
(* Time is a discrete clock `now'; every time.time() of the code reads it. *)
(* The clock may advance between any two steps of the program.             *)
(***************************************************************************)
EXTENDS Integers, Sequences, FiniteSets, TLC

\* ---- bounds of the model ------------------------------------------------
NumSinks == 3        \* length of the chain: main handler + fallbacks
MaxRecords == 3      \* records dispatched in one behaviour
MaxTime == 6         \* the clock stops here
MaxLate == 1         \* abandoned calls whose late end is observed
\* ---- configuration of the handler (constructor arguments) ---------------
Timeout == 1         \* timeout
Attempts == 2        \* attempts
RetryTimeout == 2    \* retry_timeout

Sinks == 1..NumSinks
ExcSink == 0         \* the exception_handler, kept apart from the chain
Records == 1..MaxRecords
Producers == {1, 2}     \* threads that may call emit
NoTime == -1         \* the key 'reset_time' is absent from the dict

VARIABLES
  handlers,    \* self.handlers: the chain, a sequence of sinks
  timeouts,    \* self.__timeouts: sink -> [active, attempts, reset_time]
  now,         \* the clock read by time.time()
  producers,   \* the threads that call emit in this behaviour
  pc,          \* position of each emit call: idle, chk1, chk2, probe, call, upd
  idx,         \* position in the chain of the handler under evaluation
  rec,         \* record of the running emit call
  cur,         \* index in calls of the running bounded call
  t0,          \* clock value when the running bounded call was started
  att,         \* value of ['attempts'] read at line 129, before the store
  calls,       \* every handler.emit started so far, with its result
  late,        \* calls abandoned at the deadline that have ended since, with how
  outcome,     \* record -> how its emit call ended
  nextrec,     \* next record to be submitted
  console,     \* lines printed to the console
  aband,       \* watched sink -> deadlines of its latest abandoned calls
  fallback_handlers,  \* FallbackHandler: self.fallback_handlers
  queue,              \* FallbackHandler: self.__queue, the top is the last element
  rechargequeue,      \* FallbackHandler: self.__rechargequeue, entries [h, at]
  maintimeoutcount    \* FallbackHandler: self.__maintimeoutcount

\* the fields of the FallbackHandler
fbvars == <<fallback_handlers, queue, rechargequeue, maintimeoutcount>>

vars == <<handlers, timeouts, now, producers, pc, idx, rec, cur, t0, att,
          calls, late, outcome, nextrec, console, aband, fbvars>>

\* ---- per-handler circuit record ------------------------------------------
\* __reset_handler that forgets to clear the counter
ResetHandlerKeep(st) == [st EXCEPT !.active = TRUE]

\* __reset_handler that clears the counter and leaves the handler inactive
ResetHandlerCount(st) == [st EXCEPT !.attempts = 0]

\* __reset_handler: lines 97-99
ResetHandler(st) == [st EXCEPT !.active = TRUE, !.attempts = 0]

\* __timeout_handler that leaves the old reset_time in place
TimeoutHandlerStale(st, t) == [st EXCEPT !.active = FALSE]

\* __timeout_handler: lines 93-95 (t is the value of time.time())
TimeoutHandler(st, t) ==
  [st EXCEPT !.active = FALSE, !.reset_time = t + RetryTimeout]

\* reset(): lines 88-91, a fresh dict per handler, then __reset_handler
FreshTimeouts(hs) ==
  [s \in {hs[i] : i \in 1..Len(hs)} |->
     ResetHandler([active |-> FALSE, attempts |-> 0, reset_time |-> NoTime])]

\* ProbeDue without the test of the retry time: every inactive sink is probed
ProbeDueAlways(st, t) == ~st.active

\* ProbeDue with <= for < : the sink is probed at reset_time already
ProbeDueInclusive(st, t) == (~st.active) /\ st.reset_time <= t

\* emit without lines 106-117: an inactive handler is never tried again
ProbeDueNever(st, t) == FALSE

\* lines 106-107: the handler is inactive and past its retry time
ProbeDue(st, t) == (~st.active) /\ st.reset_time < t

\* the elif of lines 118-119 without the test of the time: any counter above
\* 0 is forgiven at the next evaluation
DecayAlways(st, t) == IF st.attempts > 0 THEN [st EXCEPT !.attempts = 0] ELSE st

\* emit without the elif of lines 118-119: the counter is never forgiven
DecayOff(st, t) == st

\* lines 118-119: elif attempts > 0 and reset_time < time.time(): attempts = 0
Decay(st, t) ==
  IF st.attempts > 0 /\ st.reset_time < t THEN [st EXCEPT !.attempts = 0] ELSE st

\* AfterTimeout with the test of line 131 written > instead of >=
AfterTimeoutLate(st, a, t) ==
  LET st1 == [st EXCEPT !.attempts = a + 1, !.reset_time = t + RetryTimeout]
  IN IF st1.attempts > Attempts THEN TimeoutHandler(st1, t) ELSE st1

\* lines 128-132: the stores after a timed-out normal call; a is the value of
\* ['attempts'] read on the right-hand side of line 129
AfterTimeout(st, a, t) ==
  LET st1 == [st EXCEPT !.attempts = a + 1, !.reset_time = t + RetryTimeout]
  IN IF st1.attempts >= Attempts THEN TimeoutHandler(st1, t) ELSE st1

\* line 53-55: it.join(timeout_duration); it.isAlive()
Expired(start, t) == t >= start + Timeout

\* ---- the call log ----------------------------------------------------------
\* handler.emit(record) is started on a thread (lines 50-51): x the record,
\* i the position in the chain, h the handler, p whether it is a probe
Call(x, i, h, p) == [x |-> x, i |-> i, h |-> h, res |-> "running", probe |-> p]

\* Executor without the call of the exception handler at line 60
ExecutorSilent(cs, k, r, er) == [cs EXCEPT ![k].res = r]

\* Executor that hands a timed-out record to the exception handler as well
ExecutorExcOnTimeout(cs, k, r, er) ==
  IF r \in {"Exception", "Timeout"}
  THEN Append([cs EXCEPT ![k].res = r],
              [x |-> cs[k].x, i |-> 0, h |-> ExcSink, res |-> er, probe |-> FALSE])
  ELSE [cs EXCEPT ![k].res = r]

\* lines 52-62 of __timeout: what the executor does with the outcome r of
\* call k; er is how the exception handler's own emit ends (line 60)
Executor(cs, k, r, er) ==
  IF r = "Exception"
  THEN Append([cs EXCEPT ![k].res = r],
              [x |-> cs[k].x, i |-> 0, h |-> ExcSink, res |-> er, probe |-> FALSE])
  ELSE [cs EXCEPT ![k].res = r]

\* ---- the abandoned calls of the watched sinks -------------------------------
\* the latest Attempts + 1 entries of q
LastFew(q) == IF Len(q) > Attempts + 1 THEN Tail(q) ELSE q

\* a call on h is abandoned at its deadline d (lines 53-58): noted if h is
\* watched; reset tells whether reset() has been called since
NoteAbandoned(ab, h, d) ==
  [s \in DOMAIN ab |->
     IF s = h THEN LastFew(Append(ab[s], [at |-> d, reset |-> FALSE])) ELSE ab[s]]

\* reset() is called: every abandonment noted so far lies before it
NoteReset(ab) ==
  [s \in DOMAIN ab |-> [i \in DOMAIN ab[s] |-> [ab[s][i] EXCEPT !.reset = TRUE]]]

\* ---- Init: state after __init__ (lines 73-80) ------------------------------
\* no FallbackHandler is constructed
NoFallbackHandler ==
  /\ fallback_handlers = <<>>
  /\ queue = <<>>
  /\ rechargequeue = <<>>
  /\ maintimeoutcount = 0

InitCommon ==
  /\ NoFallbackHandler
  /\ handlers = [i \in 1..NumSinks |-> i]
  /\ timeouts = FreshTimeouts(handlers)
  /\ now = 0
  /\ pc = [t \in Producers |-> "idle"]
  /\ idx = [t \in Producers |-> 0]
  /\ rec = [t \in Producers |-> 0]
  /\ cur = [t \in Producers |-> 0]
  /\ t0 = [t \in Producers |-> 0]
  /\ att = [t \in Producers |-> 0]
  /\ calls = <<>>
  /\ late = {}
  /\ outcome = [x \in Records |-> "none"]
  /\ nextrec = 1
  /\ console = <<>>

Init == InitCommon /\ producers = {1} /\ aband = <<>>

\* ---- emit: lines 101-135 ---------------------------------------------------
\* Continue that evaluates the same handler again instead of the next one
ContinueSame(t) ==
  /\ idx' = idx
  /\ pc' = [pc EXCEPT ![t] = "chk1"]
  /\ outcome' = outcome

\* Continue that raises to the caller when the chain ends with nothing handled
ContinueRaise(t) ==
  IF idx[t] < Len(handlers)
  THEN /\ idx' = [idx EXCEPT ![t] = idx[t] + 1]
       /\ pc' = [pc EXCEPT ![t] = "chk1"]
       /\ outcome' = outcome
  ELSE /\ idx' = [idx EXCEPT ![t] = 0]
       /\ pc' = [pc EXCEPT ![t] = "idle"]
       /\ outcome' = [outcome EXCEPT ![rec[t]] = "raised"]

\* `continue' / end of the for loop (line 103): next handler, or fall off the
\* end of the chain with nothing delivered
Continue(t) ==
  IF idx[t] < Len(handlers)
  THEN /\ idx' = [idx EXCEPT ![t] = idx[t] + 1]
       /\ pc' = [pc EXCEPT ![t] = "chk1"]
       /\ outcome' = outcome
  ELSE /\ idx' = [idx EXCEPT ![t] = 0]
       /\ pc' = [pc EXCEPT ![t] = "idle"]
       /\ outcome' = [outcome EXCEPT ![rec[t]] = "dropped"]

\* Return without the break: the loop goes on with the next handler
ReturnNoBreak(t, o) == Continue(t)

\* emit that catches what the exception handler raises and returns normally
ReturnSwallow(t, o) ==
  /\ idx' = [idx EXCEPT ![t] = 0]
  /\ pc' = [pc EXCEPT ![t] = "idle"]
  /\ outcome' = [outcome EXCEPT ![rec[t]] = IF o = "raised" THEN "excepted" ELSE o]

\* `break' (lines 112, 117, 135) or the exception handler raising (line 60)
Return(t, o) ==
  /\ idx' = [idx EXCEPT ![t] = 0]
  /\ pc' = [pc EXCEPT ![t] = "idle"]
  /\ outcome' = [outcome EXCEPT ![rec[t]] = o]

\* the thread of the bounded call is started (lines 50-51)
StartCall(t, p) ==
  /\ calls' = Append(calls, Call(rec[t], idx[t], handlers[idx[t]], p))
  /\ cur' = [cur EXCEPT ![t] = Len(calls) + 1]
  /\ t0' = [t0 EXCEPT ![t] = now]

\* __timeout returns r (lines 57-62)
EndCall(t, r, er) ==
  /\ calls' = Executor(calls, cur[t], r, er)
  /\ aband' = IF r = "Timeout"
              THEN NoteAbandoned(aband, handlers[idx[t]], t0[t] + Timeout)
              ELSE aband
  /\ cur' = [cur EXCEPT ![t] = 0]
  /\ t0' = [t0 EXCEPT ![t] = 0]

\* emit is entered with the next record (lines 101-103)
Begin(t) ==
  /\ pc[t] = "idle"
  /\ nextrec <= MaxRecords
  /\ rec' = [rec EXCEPT ![t] = nextrec]
  /\ nextrec' = nextrec + 1
  /\ idx' = [idx EXCEPT ![t] = 1]
  /\ pc' = [pc EXCEPT ![t] = "chk1"]
  /\ outcome' = [outcome EXCEPT ![nextrec] = "running"]
  /\ UNCHANGED <<fbvars, aband, handlers, timeouts, now, producers, cur, t0, att, calls,
                 late, console>>

\* lines 106-108: first test; when it holds the probe call is started
Chk1(t) ==
  /\ pc[t] = "chk1"
  /\ IF ProbeDue(timeouts[handlers[idx[t]]], now)
     THEN /\ StartCall(t, TRUE)
          /\ pc' = [pc EXCEPT ![t] = "probe"]
     ELSE /\ pc' = [pc EXCEPT ![t] = "chk2"]
          /\ UNCHANGED <<calls, cur, t0>>
  /\ UNCHANGED <<fbvars, aband, handlers, timeouts, now, producers, idx, rec, att,
                 late, outcome, nextrec, console>>

\* lines 118-127: the elif, the skip of an inactive handler, or the start of
\* the normal call
Chk2(t) ==
  /\ pc[t] = "chk2"
  /\ LET h == handlers[idx[t]]
         st == Decay(timeouts[h], now)
     IN /\ timeouts' = [timeouts EXCEPT ![h] = st]
        /\ IF ~st.active
           THEN /\ Continue(t)
                /\ UNCHANGED <<calls, cur, t0>>
           ELSE /\ StartCall(t, FALSE)
                /\ pc' = [pc EXCEPT ![t] = "call"]
                /\ UNCHANGED <<idx, outcome>>
  /\ UNCHANGED <<fbvars, aband, handlers, now, producers, rec, att, late, nextrec, console>>

\* lines 108-112: the probe ends before the deadline without an exception
ProbeSuccess(t) ==
  /\ pc[t] = "probe"
  /\ ~Expired(t0[t], now)
  /\ LET h == handlers[idx[t]] IN
       timeouts' = [timeouts EXCEPT ![h] = ResetHandler(timeouts[h])]
  /\ EndCall(t, "Success", "Success")
  /\ Return(t, "delivered")
  /\ UNCHANGED <<fbvars, handlers, now, producers, rec, att, late, nextrec, console>>

\* lines 108, 113-115: the probe is still alive at the deadline
ProbeTimeout(t) ==
  /\ pc[t] = "probe"
  /\ Expired(t0[t], now)
  /\ LET h == handlers[idx[t]] IN
       timeouts' = [timeouts EXCEPT ![h] = TimeoutHandler(timeouts[h], now)]
  /\ EndCall(t, "Timeout", "Success")
  /\ Continue(t)
  /\ UNCHANGED <<fbvars, handlers, now, producers, rec, att, late, nextrec, console>>

\* a probe that raises handled like one that times out: the handler's
\* reset_time is moved on (__timeout_handler)
ProbeExceptionCooldown(t) ==
  /\ pc[t] = "probe"
  /\ ~Expired(t0[t], now)
  /\ LET h == handlers[idx[t]] IN
       timeouts' = [timeouts EXCEPT ![h] = TimeoutHandler(timeouts[h], now)]
  /\ \E er \in {"Success", "Exception"} :
       /\ EndCall(t, "Exception", er)
       /\ Return(t, IF er = "Success" THEN "excepted" ELSE "raised")
  /\ UNCHANGED <<fbvars, handlers, now, producers, rec, att, late, nextrec,
                 console>>

\* lines 108, 116-117 and 59-61: the probe raises before the deadline
ProbeException(t) ==
  /\ pc[t] = "probe"
  /\ ~Expired(t0[t], now)
  /\ \E er \in {"Success", "Exception"} :
       /\ EndCall(t, "Exception", er)
       /\ Return(t, IF er = "Success" THEN "excepted" ELSE "raised")
  /\ UNCHANGED <<fbvars, handlers, timeouts, now, producers, rec, att, late, nextrec,
                 console>>

\* lines 127, 134-135: the normal call ends before the deadline
CallSuccess(t) ==
  /\ pc[t] = "call"
  /\ ~Expired(t0[t], now)
  /\ EndCall(t, "Success", "Success")
  /\ Return(t, "delivered")
  /\ UNCHANGED <<fbvars, handlers, timeouts, now, producers, rec, att, late, nextrec,
                 console>>

\* lines 127, 59-61, 134-135: the normal call raises before the deadline
CallException(t) ==
  /\ pc[t] = "call"
  /\ ~Expired(t0[t], now)
  /\ \E er \in {"Success", "Exception"} :
       /\ EndCall(t, "Exception", er)
       /\ Return(t, IF er = "Success" THEN "excepted" ELSE "raised")
  /\ UNCHANGED <<fbvars, handlers, timeouts, now, producers, rec, att, late, nextrec,
                 console>>

\* lines 127-129: the normal call is still alive at the deadline; the
\* right-hand side of line 129 is read
CallTimeout(t) ==
  /\ pc[t] = "call"
  /\ Expired(t0[t], now)
  /\ att' = [att EXCEPT ![t] = timeouts[handlers[idx[t]]].attempts]
  /\ EndCall(t, "Timeout", "Success")
  /\ pc' = [pc EXCEPT ![t] = "upd"]
  /\ UNCHANGED <<fbvars, handlers, timeouts, now, producers, idx, rec, late,
                 outcome, nextrec, console>>

\* lines 129-133: the stores after the timeout, then continue
Upd(t) ==
  /\ pc[t] = "upd"
  /\ LET h == handlers[idx[t]] IN
       timeouts' = [timeouts EXCEPT ![h] = AfterTimeout(timeouts[h], att[t], now)]
  /\ att' = [att EXCEPT ![t] = 0]
  /\ Continue(t)
  /\ UNCHANGED <<fbvars, aband, handlers, now, producers, rec, cur, t0, calls, late, nextrec,
                 console>>

\* ---- the abandoned threads (lines 45-49, never joined again) --------------
\* the calls that were alive at the deadline and have not ended yet
Abandoned ==
  {k \in 1..Len(calls) : calls[k].res = "Timeout" /\ \A l \in late : l.k # k}

\* handler(record) returns after the deadline
AbandonedFinish ==
  /\ Cardinality(late) < MaxLate
  /\ \E k \in Abandoned : late' = late \cup {[k |-> k, end |-> "finish"]}
  /\ UNCHANGED <<fbvars, aband, handlers, timeouts, now, producers, pc, idx, rec, cur, t0,
                 att, calls, outcome, nextrec, console>>

\* a thread whose late exception is handed to the exception handler
AbandonedRaiseReported ==
  /\ Cardinality(late) < MaxLate
  /\ \E k \in Abandoned :
       /\ late' = late \cup {[k |-> k, end |-> "raise"]}
       /\ calls' = Append(calls, [x |-> calls[k].x, i |-> 0, h |-> ExcSink,
                                  res |-> "Success", probe |-> FALSE])
  /\ UNCHANGED <<fbvars, aband, handlers, timeouts, now, producers, pc, idx, rec, cur,
                 t0, att, outcome, nextrec, console>>

\* handler(record) raises after the deadline: self.result = ex, read by nobody
AbandonedRaise ==
  /\ Cardinality(late) < MaxLate
  /\ \E k \in Abandoned : late' = late \cup {[k |-> k, end |-> "raise"]}
  /\ UNCHANGED <<fbvars, aband, handlers, timeouts, now, producers, pc, idx, rec, cur, t0,
                 att, calls, outcome, nextrec, console>>

\* ---- reset(): lines 82-91, called between two emit calls -------------------
\* reset() that reverts the main handler only
ResetMainOnly ==
  /\ \A t \in Producers : pc[t] = "idle"
  /\ timeouts' = [timeouts EXCEPT ![handlers[1]] = ResetHandler(@)]
  /\ aband' = NoteReset(aband)
  /\ UNCHANGED <<fbvars, handlers, now, producers, pc, idx, rec, cur, t0, att, calls,
                 late, outcome, nextrec, console>>

Reset ==
  /\ \A t \in Producers : pc[t] = "idle"
  /\ timeouts' = FreshTimeouts(handlers)
  /\ aband' = NoteReset(aband)
  /\ UNCHANGED <<fbvars, handlers, now, producers, pc, idx, rec, cur, t0, att, calls,
                 late, outcome, nextrec, console>>

\* ---- the clock -------------------------------------------------------------
Tick ==
  /\ now < MaxTime
  /\ now' = now + 1
  /\ UNCHANGED <<fbvars, aband, handlers, timeouts, producers, pc, idx, rec, cur, t0, att, calls,
                 late, outcome, nextrec, console>>

Next ==
  \/ \E t \in producers : Begin(t)
  \/ \E t \in producers : Chk1(t)
  \/ \E t \in producers : Chk2(t)
  \/ \E t \in producers : ProbeSuccess(t)
  \/ \E t \in producers : ProbeTimeout(t)
  \/ \E t \in producers : ProbeException(t)
  \/ \E t \in producers : CallSuccess(t)
  \/ \E t \in producers : CallException(t)
  \/ \E t \in producers : CallTimeout(t)
  \/ \E t \in producers : Upd(t)
  \/ AbandonedFinish
  \/ AbandonedRaise
  \/ Reset
  \/ Tick

Spec == Init /\ [][Next]_vars

\* ---- the same program with one sink watched --------------------------------
\* the steps of emit and the clock
NextEmit ==
  \/ \E t \in producers : Begin(t)
  \/ \E t \in producers : Chk1(t)
  \/ \E t \in producers : Chk2(t)
  \/ \E t \in producers : ProbeSuccess(t)
  \/ \E t \in producers : ProbeTimeout(t)
  \/ \E t \in producers : ProbeException(t)
  \/ \E t \in producers : CallSuccess(t)
  \/ \E t \in producers : CallException(t)
  \/ \E t \in producers : CallTimeout(t)
  \/ \E t \in producers : Upd(t)
  \/ Tick

\* emit, the clock and reset(); the late ends of abandoned threads, which
\* change nothing but the variable late, are left out
NextWatch == NextEmit \/ Reset

\* state after __init__, with the abandoned calls of one sink being noted
InitWatch ==
  /\ InitCommon
  /\ producers = {1}
  /\ \E w \in Sinks : aband = [s \in {w} |-> <<>>]

SpecWatch == InitWatch /\ [][NextWatch]_vars

\* ---- a handler that has been running for a while --------------------------
\* the dict of a handler after n timed-out normal calls in a row, the stores of
\* lines 128-132 made at clock t
RECURSIVE TimedOut(_, _, _)
TimedOut(st, n, t) ==
  IF n = 0 THEN st ELSE AfterTimeout(TimedOut(st, n - 1, t), n - 1, t)

\* the state between two emit calls after Attempts records in a row timed out
\* on every handler of the chain but the last, which delivered them: all but
\* the last handler have just been taken out. The origin of the clock is the
\* end of the last of these emit calls (the code only compares clock values),
\* so the last but one handler stored its last timeout at 0 and each handler
\* before it one Timeout earlier. The call log starts empty at this point.
InitCooled ==
  /\ NoFallbackHandler
  /\ handlers = [i \in 1..NumSinks |-> i]
  /\ timeouts = [s \in Sinks |->
                   IF s < NumSinks
                   THEN TimedOut(FreshTimeouts(handlers)[s], Attempts,
                                 (s - (NumSinks - 1)) * Timeout)
                   ELSE FreshTimeouts(handlers)[s]]
  /\ now = 0
  /\ producers = {1}
  /\ pc = [t \in Producers |-> "idle"]
  /\ idx = [t \in Producers |-> 0]
  /\ rec = [t \in Producers |-> 0]
  /\ cur = [t \in Producers |-> 0]
  /\ t0 = [t \in Producers |-> 0]
  /\ att = [t \in Producers |-> 0]
  /\ calls = <<>>
  /\ late = {}
  /\ outcome = [x \in Records |-> "none"]
  /\ nextrec = 1
  /\ console = <<>>
  /\ aband = <<>>

SpecCooled == InitCooled /\ [][Next]_vars

\* ---- two threads logging through the same handler --------------------------
\* two threads call emit at the same time (emit takes no lock), with two
\* records left to log, one for each thread. The handler is in the state that
\* follows InitCooled when the next record's probe of the main handler has
\* succeeded: the main handler is active again and the fallbacks before the
\* last are still out. The origin of the clock is the end of that emit call.
InitConc ==
  /\ NoFallbackHandler
  /\ handlers = [i \in 1..NumSinks |-> i]
  /\ timeouts = [s \in Sinks |->
                   IF s = 1
                   THEN ResetHandler(TimedOut(FreshTimeouts(handlers)[s],
                                              Attempts, - Timeout - RetryTimeout))
                   ELSE IF s < NumSinks
                   THEN TimedOut(FreshTimeouts(handlers)[s], Attempts,
                                 (s - 2) * Timeout - RetryTimeout)
                   ELSE FreshTimeouts(handlers)[s]]
  /\ now = 0
  /\ producers = {1, 2}
  /\ pc = [t \in Producers |-> "idle"]
  /\ idx = [t \in Producers |-> 0]
  /\ rec = [t \in Producers |-> 0]
  /\ cur = [t \in Producers |-> 0]
  /\ t0 = [t \in Producers |-> 0]
  /\ att = [t \in Producers |-> 0]
  /\ calls = <<>>
  /\ late = {}
  /\ outcome = [x \in Records |-> "none"]
  /\ nextrec = MaxRecords - 1
  /\ console = <<>>
  /\ aband = <<>>

SpecConc == InitConc /\ [][NextEmit]_vars

\* ---- the same handler configured at two positions ---------------------------
\* __init__ (line 74) takes any lists: here the main handler is also the first
\* fallback. self.__timeouts is a dict keyed by the handler object (lines
\* 88-91), so the two positions read and write one entry.
InitDup ==
  /\ NoFallbackHandler
  /\ handlers = [i \in 1..NumSinks |-> IF i = 1 THEN 1 ELSE i - 1]
  /\ timeouts = FreshTimeouts(handlers)
  /\ now = 0
  /\ producers = {1}
  /\ pc = [t \in Producers |-> "idle"]
  /\ idx = [t \in Producers |-> 0]
  /\ rec = [t \in Producers |-> 0]
  /\ cur = [t \in Producers |-> 0]
  /\ t0 = [t \in Producers |-> 0]
  /\ att = [t \in Producers |-> 0]
  /\ calls = <<>>
  /\ late = {}
  /\ outcome = [x \in Records |-> "none"]
  /\ nextrec = 1
  /\ console = <<>>
  /\ aband = <<>>

SpecDup == InitDup /\ [][NextEmit]_vars

\* ---- progress ---------------------------------------------------------------
\* time passes while a join (line 53) waits for its deadline, past MaxTime too:
\* where progress is checked the clock must not stop under a waiting thread
TickJoin ==
  /\ \E t \in producers : pc[t] \in {"call", "probe"} /\ ~Expired(t0[t], now)
  /\ now' = now + 1
  /\ UNCHANGED <<fbvars, aband, handlers, timeouts, producers, pc, idx, rec, cur, t0,
                 att, calls, late, outcome, nextrec, console>>

NextFair == NextEmit \/ TickJoin

\* what keeps an emit call going: time passes, the thread in emit takes its
\* next step, and a join returns once its deadline has passed. Nothing is
\* assumed of the sinks: a call may run forever.
Fairness ==
  /\ WF_vars(Tick)
  /\ WF_vars(TickJoin)
  /\ \A t \in Producers :
       /\ WF_vars(Chk1(t))
       /\ WF_vars(Chk2(t))
       /\ WF_vars(ProbeTimeout(t))
       /\ WF_vars(CallTimeout(t))
       /\ WF_vars(Upd(t))

FairSpec == Init /\ [][NextFair]_vars /\ Fairness

\* the same, from the state in which all but the last handler have just been
\* taken out, and with records that keep coming
FairCooled ==
  /\ InitCooled
  /\ [][NextFair]_vars
  /\ Fairness
  /\ \A t \in Producers : WF_vars(Begin(t))

\* ==== FallbackHandler (src/src/fallbackhandler.py) ==========================
\* The queue-rotation variant: the handler on top of self.__queue serves every
\* record; after Attempts timed-out emit calls in a row it is moved to
\* self.__rechargequeue with the time of the move, and emit puts it back once
\* more than RetryTimeout has passed. The call is joined with the deadline and
\* then without one (line 42), so emit returns only when the handler has.
FbMaxRecords == 5    \* records logged through the FallbackHandler in one behaviour
FbMaxTime == 7       \* the clock of these behaviours stops here
MainHandler == 1     \* main_handler; the fallbacks are 2, 3, ...
FbRecords == 1..FbMaxRecords

\* python s[::-1]
Reversed(s) == [i \in 1..Len(s) |-> s[Len(s) + 1 - i]]

\* python list.insert(i, x): a negative i counts from the end, and an index
\* outside the list is clamped to its ends
PyInsert(q, i, x) ==
  LET n == Len(q)
      j == IF i < 0 THEN (IF i + n < 0 THEN 0 ELSE i + n)
                    ELSE (IF i > n THEN n ELSE i)
  IN SubSeq(q, 1, j) \o <<x>> \o SubSeq(q, j + 1, n)

\* python list.remove(x): the first element equal to x
RECURSIVE PyRemove(_, _)
PyRemove(q, x) ==
  IF q = <<>> THEN q
  ELSE IF Head(q) = x THEN Tail(q)
  ELSE <<Head(q)>> \o PyRemove(Tail(q), x)

\* reset(), lines 72-73: the fallbacks reversed, the main handler on top
FreshQueue(fbs) == Append(Reversed(fbs), MainHandler)

\* the fields emit works on, and whether its bookkeeping has raised
Fields(q, rqs, c) ==
  [queue |-> q, rechargequeue |-> rqs, maintimeoutcount |-> c, raised |-> FALSE]

\* lines 80-88, one pass of the loop for the entry rq at clock t;
\* self.__queue[-1] of line 83 raises IndexError on an empty list
Readd(f, rq, t) ==
  IF f.raised \/ ~(t - rq.at > RetryTimeout) THEN f
  ELSE IF f.queue = <<>> THEN [f EXCEPT !.raised = TRUE]
  ELSE IF f.queue[Len(f.queue)] = MainHandler
  THEN [f EXCEPT !.queue = PyInsert(@, -2, rq.h),
                 !.rechargequeue = PyRemove(@, rq)]
  ELSE [f EXCEPT !.queue = Append(@, rq.h),
                 !.maintimeoutcount = 0,
                 !.rechargequeue = PyRemove(@, rq)]

\* line 79: for rq in self.__rechargequeue[:], a copy taken before the loop
RECURSIVE ReaddAll(_, _, _)
ReaddAll(f, rqs, t) ==
  IF rqs = <<>> THEN f ELSE ReaddAll(Readd(f, Head(rqs), t), Tail(rqs), t)

\* lines 96-103: the bookkeeping after the call; timedout is result[0]
AfterCall(f, timedout, t) ==
  IF ~timedout THEN [f EXCEPT !.maintimeoutcount = 0]
  ELSE IF f.maintimeoutcount + 1 >= Attempts
  THEN [f EXCEPT !.rechargequeue =
                    Append(@, [h |-> f.queue[Len(f.queue)], at |-> t]),
                 !.queue = SubSeq(@, 1, Len(@) - 1),
                 !.maintimeoutcount = 0]
  ELSE [f EXCEPT !.maintimeoutcount = @ + 1]

\* state after __init__ (lines 55-63), with one fallback or more; no
\* FailsafeHandler is constructed
InitFallback ==
  /\ \E n \in 1..(NumSinks - 1) : fallback_handlers = [i \in 1..n |-> i + 1]
  /\ queue = FreshQueue(fallback_handlers)
  /\ rechargequeue = <<>>
  /\ maintimeoutcount = 0
  /\ handlers = <<>>
  /\ timeouts = <<>>
  /\ now = 0
  /\ producers = {1}
  /\ pc = [t \in Producers |-> "idle"]
  /\ idx = [t \in Producers |-> 0]
  /\ rec = [t \in Producers |-> 0]
  /\ cur = [t \in Producers |-> 0]
  /\ t0 = [t \in Producers |-> 0]
  /\ att = [t \in Producers |-> 0]
  /\ calls = <<>>
  /\ late = {}
  /\ outcome = [x \in FbRecords |-> "none"]
  /\ nextrec = 1
  /\ console = <<>>
  /\ aband = <<>>

\* emit is entered (lines 76-94, 109-110): the recharge loop, then the call of
\* the top handler is started, or the record is printed
FbBegin(t) ==
  /\ pc[t] = "idle"
  /\ nextrec <= FbMaxRecords
  /\ LET f == ReaddAll(Fields(queue, rechargequeue, maintimeoutcount),
                       rechargequeue, now)
     IN /\ queue' = f.queue
        /\ rechargequeue' = f.rechargequeue
        /\ maintimeoutcount' = f.maintimeoutcount
        /\ IF f.raised
           THEN /\ outcome' = [outcome EXCEPT ![nextrec] = "crashed"]
                /\ UNCHANGED <<pc, rec, cur, t0, calls, console>>
           ELSE IF Len(f.queue) > 0
           THEN /\ calls' = Append(calls, Call(nextrec, Len(f.queue),
                                               f.queue[Len(f.queue)], FALSE))
                /\ rec' = [rec EXCEPT ![t] = nextrec]
                /\ cur' = [cur EXCEPT ![t] = Len(calls) + 1]
                /\ t0' = [t0 EXCEPT ![t] = now]
                /\ pc' = [pc EXCEPT ![t] = "fcall"]
                /\ outcome' = [outcome EXCEPT ![nextrec] = "running"]
                /\ UNCHANGED console
           ELSE /\ console' = Append(console, nextrec)
                /\ outcome' = [outcome EXCEPT ![nextrec] = "printed"]
                /\ UNCHANGED <<pc, rec, cur, t0, calls>>
  /\ nextrec' = nextrec + 1
  /\ UNCHANGED <<fallback_handlers, handlers, timeouts, now, producers, idx,
                 att, late, aband>>

\* the handler returns or raises and __timeout returns (lines 39-44); then
\* lines 96-108: ex is result[1] != None, er how exception_handlers.emit ends
FbEnd(t) ==
  /\ pc[t] = "fcall"
  /\ \E ex \in BOOLEAN : \E er \in {"Success", "Exception"} :
       LET timedout == Expired(t0[t], now)
           r == IF timedout THEN "Timeout" ELSE IF ex THEN "Exception" ELSE "Success"
           f == AfterCall(Fields(queue, rechargequeue, maintimeoutcount),
                          timedout, now)
       IN /\ ex \/ er = "Success"
          /\ queue' = f.queue
          /\ rechargequeue' = f.rechargequeue
          /\ maintimeoutcount' = f.maintimeoutcount
          /\ calls' = IF ex
                      THEN Append([calls EXCEPT ![cur[t]].res = r],
                                  [x |-> rec[t], i |-> 0, h |-> ExcSink,
                                   res |-> er, probe |-> FALSE])
                      ELSE [calls EXCEPT ![cur[t]].res = r]
          /\ outcome' = [outcome EXCEPT ![rec[t]] =
                           IF ~ex THEN "delivered"
                           ELSE IF er = "Success" THEN "excepted" ELSE "raised"]
  /\ pc' = [pc EXCEPT ![t] = "idle"]
  /\ cur' = [cur EXCEPT ![t] = 0]
  /\ t0' = [t0 EXCEPT ![t] = 0]
  /\ UNCHANGED <<fallback_handlers, handlers, timeouts, now, producers, idx,
                 rec, att, late, nextrec, console, aband>>

\* reset() (lines 71-74), called between two emit calls
FbReset ==
  /\ \A t \in Producers : pc[t] = "idle"
  /\ maintimeoutcount' = 0
  /\ queue' = FreshQueue(fallback_handlers)
  /\ rechargequeue' = <<>>
  /\ UNCHANGED <<fallback_handlers, handlers, timeouts, now, producers, pc,
                 idx, rec, cur, t0, att, calls, late, outcome, nextrec,
                 console, aband>>

\* the clock read by datetime.now()
FbTick ==
  /\ now < FbMaxTime
  /\ now' = now + 1
  /\ UNCHANGED <<fbvars, handlers, timeouts, producers, pc, idx, rec, cur, t0,
                 att, calls, late, outcome, nextrec, console, aband>>

NextFallback ==
  \/ \E t \in producers : FbBegin(t)
  \/ \E t \in producers : FbEnd(t)
  \/ FbReset
  \/ FbTick

SpecFallback == InitFallback /\ [][NextFallback]_vars

\* ==== the claims ===========================================================
SinkCalls == {k \in 1..Len(calls) : calls[k].h # ExcSink}
ExcCalls == {k \in 1..Len(calls) : calls[k].h = ExcSink}
Finished(x) == outcome[x] \notin {"none", "running"}

\* C1: emit walks the chain in construction order: the calls made for one
\* record are at strictly increasing chain positions (so each sink is called
\* at most once per record), a call is started only when every earlier call
\* for the record has returned Timeout, every position before the one under
\* evaluation either timed out for this record or is inactive (skipped), at
\* most one call per emit is running, and the chain itself never changes.
C1_ChainOrder ==
  /\ handlers = [i \in 1..NumSinks |-> i]
  /\ \A j, k \in SinkCalls :
       (j < k /\ calls[j].x = calls[k].x) =>
          /\ calls[j].i < calls[k].i
          /\ calls[j].h # calls[k].h
          /\ calls[j].res = "Timeout"
  /\ \A k \in SinkCalls : calls[k].h = handlers[calls[k].i]
  /\ \A t \in producers :
       pc[t] # "idle" =>
          /\ \A p \in 1..(idx[t] - 1) :
               \/ \E k \in SinkCalls :
                    calls[k].x = rec[t] /\ calls[k].i = p /\ calls[k].res = "Timeout"
               \/ ~timeouts[handlers[p]].active
          /\ Cardinality({k \in SinkCalls :
                            calls[k].x = rec[t] /\ calls[k].res = "running"}) <= 1

\* C1 witness: one record was tried on the three sinks in turn (main and
\* first fallback timed out, the last fallback delivered it)
C1_Witness ==
  \E x \in Records : \E k \in SinkCalls :
     /\ k + 2 \in SinkCalls
     /\ \A d \in 0..2 : calls[k + d].x = x /\ calls[k + d].i = d + 1
     /\ calls[k].res = "Timeout" /\ calls[k + 1].res = "Timeout"
     /\ calls[k + 2].res = "Success"

\* C2: whenever a sink raises before the deadline (normal attempt or probe, at
\* any chain position) the exception handler is called with that record, once,
\* right then; the emit call is over and no sink is called for that record
\* afterwards; and the exception handler is called for nothing else.
C2_ExceptionOnce ==
  /\ \A k \in SinkCalls :
       calls[k].res = "Exception" =>
          /\ Cardinality({e \in ExcCalls : calls[e].x = calls[k].x}) = 1
          /\ k + 1 \in ExcCalls /\ calls[k + 1].x = calls[k].x
          /\ \A j \in SinkCalls : j > k => calls[j].x # calls[k].x
          /\ outcome[calls[k].x] \in {"excepted", "raised"}
  /\ \A e \in ExcCalls :
       e - 1 \in SinkCalls /\ calls[e - 1].res = "Exception"
                           /\ calls[e - 1].x = calls[e].x

\* C2 witness: a fallback raised on a normal attempt after the main handler
\* timed out, with a later fallback left untried, and a probe raised too
C2_Witness ==
  /\ \E k \in SinkCalls :
       /\ calls[k].i = 2 /\ ~calls[k].probe /\ calls[k].res = "Exception"
       /\ outcome[calls[k].x] = "excepted"
       /\ \E j \in SinkCalls : calls[j].x = calls[k].x /\ calls[j].res = "Timeout"
  /\ \E k \in SinkCalls : calls[k].probe /\ calls[k].res = "Exception"

\* C3: as long as no call of the main handler timed out or raised, the call
\* log is exactly one call per record, on the main handler, in submission
\* order, every finished record is delivered, and neither a fallback nor the
\* exception handler is called; and in general a Success ends the walk: no
\* later call is made for that record and the record counts as delivered.
C3_PrimaryOnly ==
  /\ (\A k \in SinkCalls : calls[k].i = 1 => calls[k].res \in {"running", "Success"})
       => /\ \A k \in 1..Len(calls) :
               calls[k].x = k /\ calls[k].i = 1 /\ calls[k].h = handlers[1]
          /\ \A x \in Records :
               Finished(x) => outcome[x] = "delivered" /\ calls[x].res = "Success"
          /\ Len(calls) \in {nextrec - 2, nextrec - 1}
  /\ \A k \in SinkCalls :
       calls[k].res = "Success" =>
          /\ \A j \in 1..Len(calls) : j > k => calls[j].x # calls[k].x
          /\ outcome[calls[k].x] = "delivered"

\* C3 witness: every record of the run was delivered by the main handler
C3_Witness ==
  /\ Len(calls) = MaxRecords
  /\ \A x \in Records :
       outcome[x] = "delivered" /\ calls[x].i = 1 /\ calls[x].res = "Success"

\* the emit call for x is over and no call made for x ended in Success or in
\* an exception: every sink was skipped or timed out
Exhausted(x) ==
  /\ Finished(x)
  /\ \A k \in SinkCalls : calls[k].x = x => calls[k].res = "Timeout"

\* every position of the chain was called for x and every call timed out
TimedOutEverywhere(x) ==
  \A i \in 1..Len(handlers) :
     \E k \in SinkCalls : calls[k].x = x /\ calls[k].i = i /\ calls[k].res = "Timeout"

\* C4: when emit runs off the end of the chain (every sink skipped or timed
\* out) it returns normally (the record is dropped, nothing is raised), the
\* exception handler was not called for the record and nothing was printed.
C4_SilentDrop ==
  \A x \in Records :
     Exhausted(x) =>
        /\ outcome[x] = "dropped"
        /\ \A e \in ExcCalls : calls[e].x # x
        /\ console = <<>>

\* C4 witness: one record was dropped after all three sinks timed out, and
\* another was dropped with no call at all (every sink skipped)
C4_Witness ==
  /\ \E x \in Records : TimedOutEverywhere(x) /\ outcome[x] = "dropped"
  /\ \E y \in Records :
       outcome[y] = "dropped" /\ \A k \in SinkCalls : calls[k].x # y

\* C5 as stated: a record that timed out on every sink is received by no
\* sink, the calls abandoned at the deadline included: none of its deliver
\* calls ever runs to completion.
C5_ReachesNoSink ==
  \A x \in Records :
     TimedOutEverywhere(x) =>
        \A l \in late : ~(calls[l.k].x = x /\ l.end = "finish")

\* C5 amended: a record that timed out on every sink is dropped: none of its
\* calls ended before the deadline, the exception handler is not called for
\* it and emit returns normally; the only deliveries of it that complete are
\* those of abandoned calls, after their deadline.
C5_DroppedAbandonedRun ==
  \A x \in Records :
     TimedOutEverywhere(x) =>
        /\ \A k \in SinkCalls : calls[k].x = x => calls[k].res = "Timeout"
        /\ \A e \in ExcCalls : calls[e].x # x
        /\ outcome[x] \in {"running", "dropped"}
        /\ (\A t \in producers : pc[t] = "idle" \/ rec[t] # x) => outcome[x] = "dropped"
        /\ \A l \in late : calls[l.k].x = x => calls[l.k].res = "Timeout"

\* C5 witness: a record was dropped after timing out on every sink, and one
\* of its abandoned calls has since delivered it
C5_Witness ==
  \E x \in Records :
     /\ TimedOutEverywhere(x) /\ outcome[x] = "dropped"
     /\ \E l \in late : calls[l.k].x = x /\ l.end = "finish"

\* the calls made so far on sink s
CallsOn(s) == {k \in SinkCalls : calls[k].h = s}

\* C6 as stated: every outcome of a call other than Timeout (Success or an
\* exception on a normal attempt, Success on a probe) leaves the sink's
\* counter at 0, and so a sink becomes inactive only after an uninterrupted
\* run of Attempts timed-out calls.
C6_ResetOnNonTimeout ==
  [][\A t \in producers :
       /\ (pc[t] = "call" /\ pc'[t] = "idle")
            => timeouts'[handlers[idx[t]]].attempts = 0
       /\ (pc[t] = "probe" /\ pc'[t] = "idle" /\ outcome'[rec[t]] = "delivered")
            => timeouts'[handlers[idx[t]]].attempts = 0
       /\ \A s \in Sinks :
            (timeouts[s].active /\ ~timeouts'[s].active) =>
               /\ Cardinality(CallsOn(s)) >= Attempts
               /\ \A k \in CallsOn(s) :
                    Cardinality({j \in CallsOn(s) : j > k}) < Attempts
                       => calls[k].res = "Timeout"
    ]_vars

\* C6 amended: the counter is cleared by a successful probe (which also makes
\* the sink active again); a normal attempt that ends in Success or in an
\* exception leaves the sink's record as it was, counter included, so the
\* timeouts that take a sink out need not be consecutive.
C6_ResetOnProbeSuccessOnly ==
  [][\A t \in producers :
       /\ (pc[t] = "probe" /\ pc'[t] = "idle" /\ outcome'[rec[t]] = "delivered")
            => /\ timeouts'[handlers[idx[t]]].attempts = 0
               /\ timeouts'[handlers[idx[t]]].active
       /\ (pc[t] = "call" /\ pc'[t] = "idle")
            => timeouts'[handlers[idx[t]]] = timeouts[handlers[idx[t]]]
    ]_vars

\* C6 witness: a sink is inactive after Timeout, Success, Timeout on normal
\* attempts: the Success left its counter at 1
C6_Witness ==
  \E s \in Sinks : \E i, j, k \in CallsOn(s) :
       /\ i < j /\ j < k /\ \A m \in CallsOn(s) : m <= k
       /\ ~calls[i].probe /\ ~calls[j].probe /\ ~calls[k].probe
       /\ calls[i].res = "Timeout" /\ calls[j].res = "Success"
       /\ calls[k].res = "Timeout"
       /\ ~timeouts[s].active

\* C7: a sink goes from active to inactive in exactly one kind of step: the
\* stores that follow a timed-out normal attempt on it, when they bring its
\* counter to Attempts; in that step reset_time becomes now + RetryTimeout.
\* No other step (Success, exception, skip, probe, late end of an abandoned
\* call, reset) takes an active sink out.
C7_CoolExactlyOnMaxTimeout ==
  [][\A s \in Sinks :
       LET cooled == timeouts[s].active /\ ~timeouts'[s].active
           hit == \E t \in producers :
                     /\ pc[t] = "upd" /\ pc'[t] # "upd"
                     /\ handlers[idx[t]] = s
                     /\ timeouts[s].active
                     /\ timeouts'[s].attempts = Attempts
       IN /\ cooled <=> hit
          /\ cooled => timeouts'[s].reset_time = now + RetryTimeout
    ]_vars

\* C7 witness: a sink has just been taken out by its Attempts-th timeout
C7_Witness ==
  \E s \in Sinks :
     /\ ~timeouts[s].active
     /\ timeouts[s].attempts = Attempts
     /\ timeouts[s].reset_time = now + RetryTimeout
     /\ \E k \in CallsOn(s) :
          /\ \A m \in CallsOn(s) : m <= k
          /\ ~calls[k].probe /\ calls[k].res = "Timeout"

\* C8: while emit evaluates (lines 106-124) a sink that is inactive and whose
\* reset_time is still ahead of the clock, no call is started, the sink's
\* record (and every other sink's) is left as it is, and the evaluation ends
\* with the walk at the next position, or with the record dropped when that
\* sink was the last of the chain.
C8_SkipWhileCooling ==
  [][\A t \in producers :
       (/\ pc[t] \in {"chk1", "chk2"}
        /\ ~timeouts[handlers[idx[t]]].active
        /\ now < timeouts[handlers[idx[t]]].reset_time)
       => /\ calls' = calls
          /\ timeouts' = timeouts
          /\ pc[t] = "chk1" => (pc'[t] \in {"chk1", "chk2"} /\ idx' = idx)
          /\ (pc[t] = "chk2" /\ pc'[t] # "chk2") =>
               IF idx[t] < Len(handlers)
               THEN idx'[t] = idx[t] + 1 /\ pc'[t] = "chk1" /\ outcome' = outcome
               ELSE pc'[t] = "idle" /\ outcome'[rec[t]] = "dropped"
    ]_vars

\* C8 witness: the main handler is inactive, its reset_time is ahead, and the
\* walk has passed it for the current record without calling it
C8_Witness ==
  \E t \in producers :
     /\ pc[t] = "chk1" /\ idx[t] = 2
     /\ ~timeouts[handlers[1]].active
     /\ now < timeouts[handlers[1]].reset_time
     /\ \A k \in SinkCalls : calls[k].x = rec[t] => calls[k].i # 1

\* C9 as stated: when emit evaluates an inactive sink at a time
\* now >= reset_time, the boundary now = reset_time included, it starts the
\* probe call on it instead of skipping it.
C9_ProbeAtOrAfter ==
  [][\A t \in producers :
       (/\ pc[t] = "chk1" /\ pc'[t] # "chk1"
        /\ ~timeouts[handlers[idx[t]]].active
        /\ now >= timeouts[handlers[idx[t]]].reset_time)
       => /\ pc'[t] = "probe"
          /\ calls' = Append(calls, Call(rec[t], idx[t], handlers[idx[t]], TRUE))
    ]_vars

\* C9 amended: when emit evaluates an inactive sink and the clock read at line
\* 107 is strictly later than reset_time, it starts exactly one call, the
\* probe, on that sink for that record, and when the probe has returned the
\* walk leaves that position; at now = reset_time (and before) no call is
\* started and the sink is skipped.
C9_ProbeStrictlyAfter ==
  [][\A t \in producers :
       /\ (pc[t] = "chk1" /\ pc'[t] # "chk1" /\ ~timeouts[handlers[idx[t]]].active)
            => IF now > timeouts[handlers[idx[t]]].reset_time
               THEN /\ pc'[t] = "probe"
                    /\ calls' = Append(calls, Call(rec[t], idx[t], handlers[idx[t]], TRUE))
               ELSE /\ pc'[t] = "chk2"
                    /\ calls' = calls
       /\ (pc[t] = "probe" /\ pc'[t] # "probe")
            => /\ idx'[t] # idx[t]
               /\ \A k \in 1..Len(calls') : calls'[k].res = "running" => k > Len(calls)
               /\ Cardinality({k \in 1..Len(calls') :
                    calls'[k].x = rec[t] /\ calls'[k].i = idx[t]}) = 1
    ]_vars

\* C9 witness: a probe is running, started on an inactive sink strictly after
\* its reset_time
C9_Witness ==
  \E t \in producers :
     /\ pc[t] = "probe"
     /\ calls[cur[t]].probe /\ calls[cur[t]].res = "running"
     /\ ~timeouts[handlers[idx[t]]].active
     /\ t0[t] > timeouts[handlers[idx[t]]].reset_time

\* C10: when the probe of an inactive sink times out, the sink stays inactive,
\* its reset_time becomes now + RetryTimeout, the other sinks' records are
\* untouched, and the walk goes on with the same record at the next position
\* (the record is dropped only if the probed sink was the last of the chain);
\* a Success at a later position then delivers that record.
C10_ProbeTimeoutExtends ==
  [][\A t \in producers :
       /\ (pc[t] = "probe" /\ pc'[t] # "probe" /\ calls'[cur[t]].res = "Timeout")
            => /\ ~timeouts'[handlers[idx[t]]].active
               /\ timeouts'[handlers[idx[t]]].reset_time = now + RetryTimeout
               /\ \A s \in Sinks \ {handlers[idx[t]]} : timeouts'[s] = timeouts[s]
               /\ rec'[t] = rec[t]
               /\ IF idx[t] < Len(handlers)
                  THEN /\ pc'[t] = "chk1" /\ idx'[t] = idx[t] + 1
                       /\ outcome'[rec[t]] = "running"
                  ELSE outcome'[rec[t]] = "dropped"
       /\ (/\ pc[t] \in {"call", "probe"} /\ pc'[t] = "idle"
           /\ calls'[cur[t]].res = "Success"
           /\ \E k \in SinkCalls :
                calls[k].x = rec[t] /\ calls[k].probe /\ calls[k].res = "Timeout")
            => outcome'[rec[t]] = "delivered"
    ]_vars

\* C10 witness: a record whose probe of the main handler timed out was
\* delivered by the next sink, and the main handler's reset_time was moved
C10_Witness ==
  \E j, k \in SinkCalls :
     /\ j < k /\ calls[j].x = calls[k].x
     /\ calls[j].probe /\ calls[j].i = 1 /\ calls[j].res = "Timeout"
     /\ calls[k].i = 2 /\ calls[k].res = "Success"
     /\ outcome[calls[k].x] = "delivered"
     /\ ~timeouts[handlers[1]].active
     /\ timeouts[handlers[1]].reset_time = now + RetryTimeout

\* C11, the log after a successful probe of the main handler: the call that
\* follows it in the log is the normal call of the next record on the main
\* handler, as soon as that record's walk has evaluated position 1.
C11_NextOnMain ==
  \A k \in SinkCalls :
     (/\ calls[k].probe /\ calls[k].res = "Success" /\ calls[k].i = 1
      /\ calls[k].x < MaxRecords
      /\ outcome[calls[k].x + 1] # "none"
      /\ \A t \in producers :
           ~(rec[t] = calls[k].x + 1 /\ pc[t] \in {"chk1", "chk2"} /\ idx[t] = 1))
     => /\ k + 1 \in SinkCalls
        /\ calls[k + 1].x = calls[k].x + 1
        /\ calls[k + 1].i = 1 /\ calls[k + 1].h = calls[k].h
        /\ ~calls[k + 1].probe

C12_SpacedTimeoutsNeverCool ==
  [][\A t \in producers :
       LET st == timeouts[handlers[idx[t]]] IN
       (/\ pc[t] = "call" /\ pc'[t] = "upd"
        /\ now = t0[t] + Timeout
        /\ st.active /\ st.attempts > 0
        /\ now - (st.reset_time - RetryTimeout) > RetryTimeout)
       => att'[t] + 1 < Attempts
    ]_vars

\* C12 amended: the elif of lines 118-119 is decided when the attempt starts.
\* An active sink with a counter above 0 that is evaluated strictly after its
\* reset_time gets the counter set to 0 and is then called; evaluated at or
\* before reset_time it is called with the counter as it is. So a normal call
\* that was started strictly after reset_time and times out reads a counter
\* of 0 and stores 1, which (for Attempts >= 2) leaves the sink active.
C12_LazyDecay ==
  [][\A t \in producers :
       LET h == handlers[idx[t]]
           st == timeouts[h]
       IN /\ (pc[t] = "chk2" /\ pc'[t] # "chk2" /\ st.active /\ st.attempts > 0)
               => /\ pc'[t] = "call"
                  /\ timeouts'[h] = IF st.reset_time < now
                                    THEN [st EXCEPT !.attempts = 0]
                                    ELSE st
          /\ (pc[t] = "call" /\ pc'[t] = "upd" /\ t0[t] > st.reset_time)
               => att'[t] = 0 /\ st.attempts = 0
          /\ (pc[t] = "upd" /\ pc'[t] # "upd" /\ att[t] = 0)
               => /\ timeouts'[h].attempts = 1
                  /\ Attempts >= 2 => timeouts'[h].active
    ]_vars

\* C12 witness: a second normal call on a sink has just timed out; it was
\* started after the reset_time left by the first timeout, so the counter it
\* read is 0 (no probe and no reset() cleared it: reset_time is still there)
C12_Witness ==
  \E t \in producers :
     LET s == handlers[idx[t]] IN
     /\ pc[t] = "upd" /\ att[t] = 0
     /\ timeouts[s].active /\ timeouts[s].attempts = 0
     /\ timeouts[s].reset_time > 0 /\ timeouts[s].reset_time < now
     /\ \A k \in CallsOn(s) : ~calls[k].probe
     /\ Cardinality({k \in CallsOn(s) : calls[k].res = "Timeout"}) = 2

\* C13, the scenario: the main handler is the watched sink and every call on it
\* timed out (or still runs), every call on the first fallback succeeded (or
\* still runs), and reset() was not called after a timeout of the main handler
MainTimesOutFallbackDelivers ==
  /\ handlers[1] \in DOMAIN aband
  /\ \A k \in SinkCalls :
       /\ calls[k].i = 1 => calls[k].res \in {"running", "Timeout"}
       /\ calls[k].i = 2 => calls[k].res \in {"running", "Success"}
  /\ \A j \in DOMAIN aband[handlers[1]] : ~aband[handlers[1]][j].reset
  /\ Len(aband[handlers[1]]) =
       Cardinality({k \in CallsOn(handlers[1]) : calls[k].res = "Timeout"})

\* C13, what the claim concludes: each of the first Attempts records, once
\* finished, made a normal call on the main handler that timed out and was
\* then delivered by the first fallback; a later record makes no call on the
\* main handler but a probe, and a probe is started only when RetryTimeout has
\* passed since the Attempts-th timeout.
FirstNThenSkip ==
  LET ab == aband[handlers[1]] IN
  /\ \A x \in Records :
       (x <= Attempts /\ Finished(x)) =>
          /\ outcome[x] = "delivered"
          /\ \E k \in SinkCalls :
               /\ calls[k].x = x /\ calls[k].i = 1 /\ ~calls[k].probe
               /\ calls[k].res = "Timeout"
               /\ calls[k + 1].x = x /\ calls[k + 1].i = 2
               /\ calls[k + 1].res = "Success"
  /\ \A k \in CallsOn(handlers[1]) : calls[k].x > Attempts => calls[k].probe
  /\ \A j \in DOMAIN ab :
       j > Attempts => ab[j].at - Timeout > ab[Attempts].at + RetryTimeout

\* C13 as stated: in the scenario, whatever the spacing in time of the first
\* Attempts records, the conclusion holds.
C13_FirstNThenSkipAnySpacing ==
  MainTimesOutFallbackDelivers => FirstNThenSkip

\* C13 amended: the conclusion holds when, among the first Attempts timeouts of
\* the main handler, each comes at most RetryTimeout after the one before (so
\* that line 119 never forgives the earlier ones).
C13_FirstNThenSkipWhenClose ==
  LET ab == aband[handlers[1]] IN
  (/\ MainTimesOutFallbackDelivers
   /\ \A j \in DOMAIN ab :
        (1 < j /\ j <= Attempts) => ab[j].at - ab[j - 1].at <= RetryTimeout)
  => FirstNThenSkip

\* C13 witness: the first Attempts records timed out on the main handler, close
\* to each other, and were delivered by the fallback; the next record was
\* delivered by the fallback without any call on the main handler
C13_Witness ==
  LET ab == aband[handlers[1]] IN
  /\ MainTimesOutFallbackDelivers
  /\ Len(ab) = Attempts
  /\ \A j \in DOMAIN ab : 1 < j => ab[j].at - ab[j - 1].at <= RetryTimeout
  /\ \A x \in 1..Attempts : outcome[x] = "delivered"
  /\ outcome[Attempts + 1] = "delivered"
  /\ \A k \in SinkCalls : calls[k].x = Attempts + 1 => calls[k].i = 2

\* C14: every emit call that was entered ends, whatever the sinks do (none of
\* them is assumed ever to return): the record ends delivered, handed to the
\* exception handler, or dropped; the only error that reaches the caller is
\* one raised by the exception handler itself, so a record none of whose calls
\* raised (its sinks timed out, were skipped or succeeded) ends delivered or
\* dropped.
C14_EmitTerminates ==
  /\ [](\A x \in Records :
          /\ outcome[x] \in {"none", "running", "delivered", "excepted",
                             "dropped", "raised"}
          /\ outcome[x] = "raised" =>
               \E e \in ExcCalls : calls[e].x = x /\ calls[e].res = "Exception"
          /\ (Finished(x) /\ \A k \in SinkCalls :
                               calls[k].x = x => calls[k].res \in {"Timeout", "Success"})
               => outcome[x] \in {"delivered", "dropped"})
  /\ \A x \in Records : (outcome[x] = "running") ~> Finished(x)

\* C14 witness: every record of the run has ended, and one of them ended
\* (dropped) although each sink of the chain was still busy at its deadline
C14_Witness ==
  /\ \A x \in Records : Finished(x)
  /\ \A t \in producers : pc[t] = "idle"
  /\ \E x \in Records :
       /\ outcome[x] = "dropped"
       /\ Cardinality({k \in SinkCalls : calls[k].x = x /\ calls[k].res = "Timeout"})
            = Len(handlers)

\* C15: when a call is still alive at its deadline, __timeout returns
\* "Timeout" in that very step: the call is left running (it joins the
\* abandoned calls) and emit moves on without waiting. When an abandoned call
\* later returns or raises, nothing else changes: no sink's record, no call
\* (so the exception handler is not called), no record's outcome, no emit
\* call's position.
C15_LateEndDiscarded ==
  [][/\ \A t \in producers :
          (/\ pc[t] \in {"call", "probe"} /\ pc'[t] # pc[t]
           /\ calls'[cur[t]].res = "Timeout")
          => /\ cur[t] \in Abandoned'
             /\ pc'[t] \notin {"call", "probe"}
             /\ now' = now /\ late' = late
     /\ late' # late
          => /\ \E k \in Abandoned : late' \ late \in {{[k |-> k, end |-> "finish"]},
                                                       {[k |-> k, end |-> "raise"]}}
             /\ timeouts' = timeouts
             /\ calls' = calls
             /\ outcome' = outcome
             /\ pc' = pc /\ idx' = idx /\ rec' = rec
             /\ console' = console
    ]_vars

\* C15 witness: a call on the main handler was abandoned, its record was
\* delivered by a fallback, and the abandoned call has since raised: the
\* record is still delivered and the exception handler was never called
C15_Witness ==
  \E l \in late :
     /\ l.end = "raise"
     /\ calls[l.k].i = 1 /\ calls[l.k].res = "Timeout"
     /\ outcome[calls[l.k].x] = "delivered"
     /\ ExcCalls = {}

\* C16: with emit calls running concurrently, every store that follows a
\* timed-out normal call (lines 129-132) raises the sink's counter by exactly
\* one above the value it has at that moment (no update is lost), and the sink
\* is inactive as soon as the counter has reached Attempts.
C16_NoLostUpdate ==
  [][\A t \in producers :
       LET h == handlers[idx[t]] IN
       (pc[t] = "upd" /\ pc'[t] # "upd")
       => /\ timeouts'[h].attempts = timeouts[h].attempts + 1
          /\ timeouts'[h].attempts >= Attempts => ~timeouts'[h].active
    ]_vars

\* C17, where recovery is due: the main handler is inactive, the clock is past
\* its reset_time, no emit call is running, a record is still to come, and n
\* calls of the main handler have been made so far
RecoveryDue(n) ==
  /\ ~timeouts[handlers[1]].active
  /\ timeouts[handlers[1]].reset_time < now
  /\ \A t \in producers : pc[t] = "idle"
  /\ nextrec <= MaxRecords
  /\ Cardinality(CallsOn(handlers[1])) = n

\* C17, recovery: call n + 1 of the main handler is a probe and has returned;
\* if it returned Success, its record is delivered and the main handler is
\* active with its counter at 0
Recovered(n) ==
  \E k \in CallsOn(handlers[1]) :
     /\ Cardinality({j \in CallsOn(handlers[1]) : j <= k}) = n + 1
     /\ \A j \in CallsOn(handlers[1]) : j <= k
     /\ calls[k].probe /\ calls[k].res # "running"
     /\ calls[k].res = "Success" =>
          /\ outcome[calls[k].x] = "delivered"
          /\ timeouts[handlers[1]].active
          /\ timeouts[handlers[1]].attempts = 0

\* C17, after recovery: once a probe of the main handler has succeeded, and as
\* long as every later call of the main handler succeeds, the log goes on with
\* exactly one call per record, a normal call of the main handler, and every
\* record that has ended since is delivered
MainAloneAfterRecovery ==
  \A k \in CallsOn(handlers[1]) :
     (/\ calls[k].probe /\ calls[k].res = "Success"
      /\ \A m \in CallsOn(handlers[1]) :
           m > k => calls[m].res \in {"running", "Success"})
     => /\ \A j \in 1..Len(calls) :
             j > k => /\ calls[j].h = handlers[1] /\ ~calls[j].probe
                      /\ calls[j].x = calls[k].x + (j - k)
        /\ \A y \in Records :
             (y > calls[k].x /\ Finished(y)) => outcome[y] = "delivered"

\* C17: with the clock advancing and records coming, whenever recovery of the
\* main handler is due the next record probes it and the probe returns; if
\* the main handler's calls succeed from then on, that probe makes it active
\* again and every later record is delivered by the main handler alone.
C17_Recovery ==
  /\ []MainAloneAfterRecovery
  /\ \A n \in 0..MaxRecords : RecoveryDue(n) ~> Recovered(n)

\* C17 witness: the main handler was out, its probe succeeded, and the records
\* that came after were each delivered by one normal call of the main handler
C17_Witness ==
  /\ Len(calls) = MaxRecords
  /\ calls[1].probe /\ calls[1].i = 1 /\ calls[1].res = "Success"
  /\ \A j \in 2..MaxRecords :
       calls[j].i = 1 /\ ~calls[j].probe /\ calls[j].res = "Success"
  /\ \A x \in Records : outcome[x] = "delivered"
  /\ timeouts[handlers[1]].active

\* C18: when a sink raises and the exception handler's own emit raises too
\* (line 60), emit is left in that very step with the error going to the
\* caller (the record ends raised, not handed over, delivered or dropped), no
\* further sink is called for the record, and no sink's record changes: each
\* is as it was when the failing call was started, since none changes while
\* that call runs either.
C18_ExceptionSinkRaises ==
  [][\A t \in producers :
       /\ (/\ pc[t] \in {"call", "probe"} /\ pc'[t] # pc[t]
           /\ Len(calls') = Len(calls) + 1
           /\ calls'[Len(calls')].h = ExcSink
           /\ calls'[Len(calls')].res = "Exception")
          => /\ calls'[cur[t]].res = "Exception"
             /\ outcome'[rec[t]] = "raised"
             /\ pc'[t] = "idle"
             /\ timeouts' = timeouts
       /\ (pc[t] \in {"call", "probe"} /\ pc'[t] = pc[t]) => timeouts' = timeouts
       /\ (rec[t] \in Records /\ pc[t] = "idle" /\ outcome[rec[t]] = "raised")
          => \A k \in 1..Len(calls') : calls'[k].x = rec[t] => k <= Len(calls)
    ]_vars

\* C18 witness: the main handler timed out (its counter is up), the first
\* fallback raised, the exception handler raised as well, and the record
\* ended with that error
C18_Witness ==
  \E e \in ExcCalls :
     /\ calls[e].res = "Exception"
     /\ outcome[calls[e].x] = "raised"
     /\ calls[e - 1].i = 2 /\ calls[e - 1].res = "Exception"
     /\ timeouts[handlers[1]].attempts > 0
     /\ timeouts[handlers[2]].attempts = 0 /\ timeouts[handlers[2]].active

\* C19 as stated: in any window of length RetryTimeout at most Attempts calls
\* of a given sink are abandoned: of the abandoned calls of a watched sink, one
\* and the Attempts-th after it are more than RetryTimeout apart.
C19_AtMostAttemptsPerWindow ==
  \A s \in DOMAIN aband : \A i, j \in DOMAIN aband[s] :
     j - i >= Attempts => aband[s][j].at - aband[s][i].at > RetryTimeout

\* C19 amended: the same, for windows in which reset() is not called: of the
\* calls of a watched sink abandoned since the last reset(), one and the
\* Attempts-th after it are more than RetryTimeout apart.
C19_AtMostAttemptsPerWindowSinceReset ==
  \A s \in DOMAIN aband : \A i, j \in DOMAIN aband[s] :
     (j - i >= Attempts /\ ~aband[s][i].reset)
     => aband[s][j].at - aband[s][i].at > RetryTimeout

\* C19 witness: with no reset() in between, Attempts calls of a sink were
\* abandoned within RetryTimeout of each other, and the next call of that sink
\* to be abandoned (a probe) came more than RetryTimeout after the first
C19_Witness ==
  \E s \in DOMAIN aband :
     /\ Len(aband[s]) = Attempts + 1
     /\ \A i \in DOMAIN aband[s] : ~aband[s][i].reset
     /\ aband[s][Attempts].at - aband[s][1].at <= RetryTimeout
     /\ aband[s][Attempts + 1].at - aband[s][1].at > RetryTimeout

\* C20, the log: of the calls made for one record at most one is a probe that
\* succeeded, and it is the last call made for that record
OneRecoveryPerRecord ==
  \A k \in SinkCalls :
     (calls[k].probe /\ calls[k].res = "Success")
     => \A j \in SinkCalls : (j # k /\ calls[j].x = calls[k].x)
           => j < k /\ calls[j].i < calls[k].i /\ calls[j].res = "Timeout"

\* C20: a sink goes from inactive to active either by reset(), outside any
\* emit call, or in the step in which its own probe returns Success; that
\* step ends the emit call, so an emit call makes at most one sink active:
\* the first in chain order whose probe succeeds (every call made for the
\* record before it timed out). The other sinks' records are untouched by the
\* step, and no sink after it is called for that record.
C20_OneRecoveryPerEmit ==
  [][/\ \A s \in Sinks :
          (~timeouts[s].active /\ timeouts'[s].active)
          => \/ /\ \A t \in producers : pc[t] = "idle"
                /\ pc' = pc /\ calls' = calls
             \/ \E t \in producers :
                  /\ pc[t] = "probe" /\ handlers[idx[t]] = s
                  /\ calls'[cur[t]].res = "Success"
                  /\ pc'[t] = "idle" /\ outcome'[rec[t]] = "delivered"
                  /\ \A s2 \in Sinks \ {s} : timeouts'[s2] = timeouts[s2]
                  /\ \A k \in SinkCalls : calls[k].x = rec[t] => calls[k].i <= idx[t]
     /\ OneRecoveryPerRecord'
    ]_vars

\* C20 witness: the main handler and the first fallback were both inactive and
\* due for a probe; one emit call probed the main handler with success and
\* ended there: the fallback is still inactive and was not called
C20_Witness ==
  \E k \in SinkCalls :
     /\ k = Len(calls)
     /\ calls[k].probe /\ calls[k].i = 1 /\ calls[k].res = "Success"
     /\ outcome[calls[k].x] = "delivered"
     /\ \A t \in producers : pc[t] = "idle"
     /\ timeouts[handlers[1]].active
     /\ ~timeouts[handlers[2]].active
     /\ timeouts[handlers[2]].reset_time + Timeout <= now
     /\ CallsOn(handlers[2]) = {}

\* C21: the status and the counter are kept per chain position: a step that
\* records a timeout for the position under evaluation (the stores of lines
\* 129-132 after a normal call, or of lines 94-95 after a probe) leaves the
\* status and the counter used for every other position as they were, also
\* when the same handler object stands at both positions.
C21_PositionsIndependent ==
  [][\A t \in producers :
       (pc[t] \in {"upd", "probe"} /\ pc'[t] # pc[t])
       => \A j \in 1..Len(handlers) :
             j # idx[t]
             => /\ timeouts'[handlers[j]].active = timeouts[handlers[j]].active
                /\ timeouts'[handlers[j]].attempts = timeouts[handlers[j]].attempts
    ]_vars

\* C22, what reset() establishes: every handler of the chain is active with
\* its counter at 0
Restored ==
  \A i \in 1..Len(handlers) :
     timeouts[handlers[i]].active /\ timeouts[handlers[i]].attempts = 0

\* C22: reset() called between two emit calls, in whatever state the handlers
\* are, leaves every handler active with its counter at 0, and a second
\* reset() right after it would change nothing. An emit call that finds the
\* handlers so is at the main handler and starts a normal call on it, not a
\* probe. And a handler is only taken out after at least Attempts of its calls
\* were abandoned since the last reset(): the timeouts before it do not count.
C22_ResetRestoresAll ==
  /\ [][/\ ((\A t \in producers : pc[t] = "idle") /\ pc' = pc /\ now' = now)
             => /\ Restored'
                /\ timeouts' = FreshTimeouts(handlers')
                /\ aband' = NoteReset(aband')
        /\ \A t \in producers :
             (Restored /\ pc[t] \in {"chk1", "chk2"} /\ pc'[t] # pc[t])
             => /\ idx[t] = 1
                /\ pc[t] = "chk1" => pc'[t] = "chk2" /\ calls' = calls
                /\ pc[t] = "chk2" =>
                     /\ pc'[t] = "call"
                     /\ calls' = Append(calls, Call(rec[t], 1, handlers[1], FALSE))
       ]_vars
  /\ [](\A s \in DOMAIN aband :
          ~timeouts[s].active
          => Cardinality({i \in DOMAIN aband[s] : ~aband[s][i].reset}) >= Attempts)

\* C22 witness: reset() was called while the main handler was out (Attempts of
\* its calls abandoned close together before the reset); the next record was
\* tried on the main handler with a normal call, which timed out, and the main
\* handler is still active with 1 on its counter
C22_Witness ==
  /\ handlers[1] \in DOMAIN aband
  /\ LET ab == aband[handlers[1]] IN
       /\ Len(ab) = Attempts + 1
       /\ \A i \in 1..Attempts : ab[i].reset
       /\ \A i \in 2..Attempts : ab[i].at - ab[i - 1].at <= RetryTimeout
       /\ ~ab[Attempts + 1].reset
       /\ ab[Attempts + 1].at - ab[Attempts].at <= RetryTimeout
  /\ \A k \in CallsOn(handlers[1]) : ~calls[k].probe
  /\ \A t \in producers : pc[t] = "idle"
  /\ timeouts[handlers[1]].active
  /\ timeouts[handlers[1]].attempts = 1

\* the entries of the recharge list that emit would put back at clock t
DueAt(t) ==
  {i \in 1..Len(rechargequeue) : t - rechargequeue[i].at > RetryTimeout}

\* C23: the first record is served by the main handler, and every call is made
\* on the handler that is on top of the live queue; the emit call that records
\* the Attempts-th timeout in a row moves the top handler to the recharge list
\* and uncovers the next one; and in every state, an emit call entered more
\* than RetryTimeout after the main handler was moved out puts it back on top
\* and calls it with that record.
C23_QueueRotation ==
  [][\A t \in producers :
       /\ (pc[t] = "idle" /\ nextrec' = nextrec + 1)
          => /\ nextrec = 1 =>
                  /\ pc'[t] = "fcall"
                  /\ calls'[Len(calls')].h = MainHandler
             /\ pc'[t] = "fcall" =>
                  /\ Len(calls') = Len(calls) + 1
                  /\ calls'[Len(calls')].x = nextrec
                  /\ calls'[Len(calls')].h = queue'[Len(queue')]
             /\ (\E i \in DueAt(now) : rechargequeue[i].h = MainHandler) =>
                  /\ pc'[t] = "fcall"
                  /\ queue'[Len(queue')] = MainHandler
                  /\ calls'[Len(calls')].x = nextrec
                  /\ calls'[Len(calls')].h = MainHandler
       /\ (pc[t] = "fcall" /\ pc'[t] = "idle" /\ Expired(t0[t], now)
           /\ maintimeoutcount = Attempts - 1)
          => /\ queue' = SubSeq(queue, 1, Len(queue) - 1)
             /\ rechargequeue' =
                  Append(rechargequeue, [h |-> queue[Len(queue)], at |-> now])
    ]_vars

\* C27: emit never raises because of its own bookkeeping. Entered with the
\* live queue empty, it prints the record and calls no handler when no entry
\* of the recharge list is due; when an entry is due, it puts that handler
\* back and calls it with the record.
C27_EmptyQueueHandled ==
  [][\A t \in producers :
       (pc[t] = "idle" /\ nextrec' = nextrec + 1)
       => /\ outcome'[nextrec] # "crashed"
          /\ (queue = <<>> /\ DueAt(now) = {})
             => /\ console' = Append(console, nextrec)
                /\ calls' = calls
                /\ pc'[t] = "idle"
          /\ (queue = <<>> /\ DueAt(now) # {})
             => /\ pc'[t] = "fcall"
                /\ calls'[Len(calls')].x = nextrec
                /\ \E i \in DueAt(now) : calls'[Len(calls')].h = rechargequeue[i].h
    ]_vars

\* place of a handler in the configured order: 0 for the main handler, k for
\* fallback_handlers[k]
Priority(h) ==
  IF h = MainHandler THEN 0
  ELSE CHOOSE k \in 1..Len(fallback_handlers) : fallback_handlers[k] = h

\* C28: in every state the live queue holds its handlers in the configured
\* order, from the bottom to the top: a handler nearer the top comes earlier
\* in main handler, fallback_handlers[0], fallback_handlers[1], ...
C28_QueueKeepsPriority ==
  \A i, j \in 1..Len(queue) :
     i < j => Priority(queue[i]) > Priority(queue[j])

\* C24: between two calls of emit or reset(), made one after the other, every
\* handler's counter lies in 0..Attempts, and a handler is inactive exactly
\* when its counter is at Attempts.
C24_CounterInvariant ==
  (\A t \in producers : pc[t] = "idle")
  => \A i \in 1..Len(handlers) :
        LET st == timeouts[handlers[i]] IN
        /\ st.attempts \in 0..Attempts
        /\ ~st.active <=> st.attempts = Attempts

\* C25: whatever the number of emit calls that evaluate an inactive handler
\* past its reset_time at the same time, at most one probe of that handler is
\* running: the other emit calls do not call it.
C25_SingleProbe ==
  \A j, k \in SinkCalls :
     (/\ j # k
      /\ calls[j].h = calls[k].h
      /\ calls[j].probe /\ calls[k].probe
      /\ calls[j].res = "running")
     => calls[k].res # "running"

\* C26, the latest call of handler h is a probe that raised
FailedProbeLast(h) ==
  \E k \in CallsOn(h) :
     /\ calls[k].probe /\ calls[k].res = "Exception"
     /\ \A j \in CallsOn(h) : j <= k

\* C26 as stated: once a probe of handler h has raised, every later record is
\* probed on h too, and goes to the exception handler when that probe raises
\* again, until a probe of h has returned Success or Timeout.
C26_EveryFollowingDispatchProbes ==
  \A k \in SinkCalls :
     (calls[k].probe /\ calls[k].res = "Exception")
     => \A x \in Records :
           (/\ x > calls[k].x
            /\ Finished(x)
            /\ \A j \in CallsOn(calls[k].h) :
                  (calls[j].probe /\ calls[k].x < calls[j].x /\ calls[j].x < x)
                  => calls[j].res = "Exception")
           => \E j \in CallsOn(calls[k].h) :
                 /\ calls[j].x = x
                 /\ calls[j].probe
                 /\ calls[j].res = "Exception" => j + 1 \in ExcCalls

\* C26: a probe that raises leaves the record of every handler as it was (the
\* probed handler still inactive, same reset_time, same counter), hands the
\* record to the exception handler and ends the emit call. As long as that
\* handler is inactive and the raising probe is the latest of its calls (no
\* probe of it has returned Success or Timeout since), every emit call that
\* comes to evaluate it starts a probe of it again; the main handler is
\* evaluated by every emit call.
C26_FailedProbeLeavesState ==
  [][\A t \in producers :
       LET h == handlers[idx[t]] IN
       /\ (pc[t] = "probe" /\ pc'[t] # "probe" /\ calls'[cur[t]].res = "Exception")
          => /\ timeouts' = timeouts
             /\ pc'[t] = "idle"
             /\ Len(calls') = Len(calls) + 1
             /\ calls'[Len(calls')].h = ExcSink
             /\ calls'[Len(calls')].x = rec[t]
             /\ outcome'[rec[t]] \in {"excepted", "raised"}
       /\ (pc[t] = "idle" /\ pc'[t] # "idle") => idx'[t] = 1
       /\ (pc[t] = "chk1" /\ pc'[t] # "chk1"
           /\ FailedProbeLast(h) /\ ~timeouts[h].active)
          => /\ pc'[t] = "probe"
             /\ calls' = Append(calls, Call(rec[t], idx[t], h, TRUE))
    ]_vars

\* C26 witness: the probes of the inactive main handler raised for two records
\* in a row; both records went to the exception handler and no other sink was
\* called for them, and the main handler is still inactive with its counter
\* at Attempts
C26_Witness ==
  \E k \in CallsOn(handlers[1]) : \E j \in CallsOn(handlers[1]) :
     /\ k < j
     /\ calls[k].probe /\ calls[k].res = "Exception"
     /\ calls[j].probe /\ calls[j].res = "Exception"
     /\ calls[j].x = calls[k].x + 1
     /\ \A e \in {k + 1, j + 1} : e \in ExcCalls
     /\ \A c \in SinkCalls : calls[c].x \in {calls[k].x, calls[j].x} => c \in {k, j}
     /\ ~timeouts[handlers[1]].active
     /\ timeouts[handlers[1]].attempts = Attempts
     /\ \A t \in producers : pc[t] = "idle"

TypeOK ==
  /\ now \in 0..MaxTime
  /\ \A s \in Sinks : timeouts[s].attempts \in 0..Attempts
====
